---- MODULE Spec2Model ----
(***************************************************************************)
(* Model of the hdf5-ext packet table wrapper (hdf5-hl/src/pt.rs), its     *)
(* buffered writer (hdf5-hl/src/pt/buf_writer.rs) and the type descriptors *)
(* of dynamically sized records (hdf5-dst/src/lib.rs, hdf5-dst-derive).    *)
(*                                                                         *)
(* The HDF5 packet-table engine is reached through the extern functions    *)
(* declared in hdf5-hl-sys/src/h5pt.rs.  Each engine call is modelled by   *)
(* an operator named after the extern function.  Every engine call takes a *)
(* `fault` input: the engine may fail (I/O error, invalid id) at any call. *)
(* A single engine call is atomic: on failure it leaves the table and the  *)
(* read cursor of the handle as they were.                                 *)
(*                                                                         *)
(* The code never looks into a record: it hands pointers and counts to the *)
(* engine.  Records are therefore written as numbers, and the callers of   *)
(* the model hand in records that are all distinct (the k-th record put    *)
(* into the table or a writer's buffer is k), which shows every loss,      *)
(* duplication, reordering or misplaced read.                              *)
(***************************************************************************)
EXTENDS Integers, Sequences, FiniteSets, TLC

\* ---------------------------------------------------------------- bounds
\* Largest number of records the table holds in the model.
MaxPackets == 4
\* Largest count handed to a read, and longest slice appended.
MaxCount == 2
\* Number of iterator slots (closures returned by iter()).
MaxIters == 2
\* Longest log of successful read_next windows kept for the partition claim.
MaxWins == 3
\* Most records a caller's container holds before a read_unsized.
MaxOld == 1
\* Largest buf_len a buffered writer is created with.
MaxBufLen == 2
\* Most flush() invocations observed in the life of one writer.
MaxFlushes == 3
\* Number of PacketTable values followed from create/open to Drop.
MaxHandles == 2
\* Most fields before the tail in a derived record type.
MaxFields == 3
\* Longest tail (elements of a slice, bytes of a str) of a record.
MaxTail == 3
\* Number of threads that call into the library at the same time.
MaxThreads == 2

VARIABLES
    table,      \* engine side: the records of the packet table, in order
    index,      \* engine side: the handle's read cursor (current_index)
    cursors,    \* iterator slot -> its private index; -1: no iterator
    wphase,     \* PacketTableBufWriter: "none", "alive", "gone", "halted"
    buf_len,    \* PacketTableBufWriter.buf_len
    buffer,     \* PacketTableBufWriter.buffer: the records it holds
    cap,        \* capacity of PacketTableBufWriter.buffer
    wins,       \* history: windows returned by read_next since index was 0
    seeked,     \* history: the table's cursor moved since the last iterator step
    wlog,       \* history of the live writer: pushes, flushes, engine calls
    last,       \* history: the last call of the API and what it returned
    obs,        \* which history variables this specification records
    yielded,    \* history: iterator slot -> what the iterator returned so far
    file,       \* engine side: the names of the packet tables in the location
    handles,    \* PacketTable values: slot -> where the handle is in its life
    life,       \* history: the last create/open/drop and the engine calls it made
    decl,       \* the record type whose descriptor was asked for last
    td,         \* the TypeDescriptor::Compound computed for it
    repr,       \* the repr attribute the record type was declared with
    debug_assertions,   \* the build: cfg!(debug_assertions)
    cont,       \* engine side: the dataset or attribute made last
    threads,    \* thread -> the operation it runs and its position in it
    lock        \* the process-wide re-entrant lock of the hdf5 crate

vars == <<table, index, cursors, wphase, buf_len, buffer, cap, wins, seeked, wlog,
          last, obs, yielded, file, handles, life, decl, td, repr,
          debug_assertions, cont, threads, lock>>
writerVars == <<wphase, buf_len, buffer, cap, wlog>>
lifeVars == <<file, handles, life>>
layoutVars == <<decl, td>>
buildVars == <<repr, debug_assertions>>
contVars == <<cont>>
lockVars == <<threads, lock>>
restVars == <<buildVars, contVars, lockVars>>
otherVars == <<lifeVars, layoutVars, restVars>>

\* ------------------------------------------------------------- helpers
\* The next n records a caller hands in, none of them seen before.
Fresh(n) == [k \in 1..n |-> Len(table) + Len(buffer) + k]

\* A caller's container that already holds n records read earlier.
Old(n) == [k \in 1..n |-> 0]

RECURSIVE Concat(_)
Concat(ss) == IF ss = <<>> THEN <<>> ELSE Head(ss) \o Concat(Tail(ss))

\* ---------------------------------------------------------------- engine
\* H5PTappend(table_id, nrecords, data): the first nrecords records at data
\* are written at the end of the table, or nothing is.
H5PTappend_overwrite(tbl, nrecords, data, fault) ==
    IF fault
    THEN [ok |-> FALSE, table |-> tbl]
    ELSE [ok |-> TRUE,
          table |-> SubSeq(data, 1, nrecords)
                    \o SubSeq(tbl, nrecords + 1, Len(tbl))]

H5PTappend(tbl, nrecords, data, fault) ==
    IF fault
    THEN [ok |-> FALSE, table |-> tbl]
    ELSE [ok |-> TRUE, table |-> tbl \o SubSeq(data, 1, nrecords)]

\* H5PTget_num_packets(table_id, &nrecords)
H5PTget_num_packets(tbl, fault) ==
    IF fault THEN [ok |-> FALSE, n |-> 0] ELSE [ok |-> TRUE, n |-> Len(tbl)]

\* H5PTread_packets(table_id, start, nrecords, data): a request of zero
\* records returns at once; otherwise the range must lie within the table.
H5PTread_packets(tbl, start, nrecords, fault) ==
    IF fault \/ (nrecords > 0 /\ start + nrecords > Len(tbl))
    THEN [ok |-> FALSE, data |-> <<>>]
    ELSE [ok |-> TRUE, data |-> SubSeq(tbl, start + 1, start + nrecords)]

\* H5PTget_next(table_id, nrecords, data): reads at the handle's cursor and
\* advances the cursor only when the read succeeded.
H5PTget_next(tbl, idx, nrecords, fault) ==
    IF fault \/ (nrecords > 0 /\ idx + nrecords > Len(tbl))
    THEN [ok |-> FALSE, data |-> <<>>, index |-> idx]
    ELSE [ok |-> TRUE, data |-> SubSeq(tbl, idx + 1, idx + nrecords),
          index |-> idx + nrecords]

\* H5PTcreate_index(table_id): the cursor goes back to 0.
H5PTcreate_index(idx, fault) ==
    IF fault THEN [ok |-> FALSE, index |-> idx] ELSE [ok |-> TRUE, index |-> 0]

\* H5PTset_index(table_id, pt_index): refused when pt_index is not the
\* position of a record.
H5PTset_index(tbl, idx, pt_index, fault) ==
    IF fault \/ ~(pt_index < Len(tbl))
    THEN [ok |-> FALSE, index |-> idx]
    ELSE [ok |-> TRUE, index |-> pt_index]

\* H5PTget_index(table_id, &pt_index)
H5PTget_index(idx, fault) ==
    IF fault THEN [ok |-> FALSE, index |-> 0] ELSE [ok |-> TRUE, index |-> idx]

\* ------------------------------------------------------------ history
\* What a call leaves in `last`, where `last` is recorded.
Call(op, ok, fault, start, n, ret, buf0, note) ==
    IF "last" \in obs
    THEN [op |-> op, ok |-> ok, fault |-> fault, start |-> start, n |-> n,
          ret |-> ret, buf0 |-> buf0, note |-> note]
    ELSE last

\* A move of the handle's cursor is noted until the next iterator step.
Moved(newIndex) == seeked \/ ("moved" \in obs /\ newIndex # index)

NoWins == [valid |-> FALSE, log |-> <<>>]
FreshWins == [valid |-> TRUE, log |-> <<>>]

\* The window a successful read_next returned is logged.
Logged(ok, win) ==
    IF "wins" \in obs /\ ok /\ wins.valid
    THEN [wins EXCEPT !.log = Append(@, win)] ELSE wins

\* Any other move of the cursor ends the run of read_next calls.
Unlogged(newIndex) ==
    IF "wins" \in obs /\ newIndex # index THEN NoWins ELSE wins

\* The borrow of the table by a live writer (table: &'a mut PacketTable)
\* keeps every other use of the handle out; a halted program runs nothing.
Idle == wphase \in {"none", "gone"}

\* ------------------------------------------------- PacketTable (pt.rs)
\* PacketTable::push: one H5PTappend of one record.
push(tbl, val, fault) == H5PTappend(tbl, 1, <<val>>, fault)

\* PacketTable::append: one H5PTappend of slice.len() records.
append_first(tbl, slice, fault) ==
    H5PTappend(tbl, IF Len(slice) > 1 THEN 1 ELSE Len(slice), slice, fault)

append(tbl, slice, fault) == H5PTappend(tbl, Len(slice), slice, fault)

\* PacketTable::append_unsized: one H5PTappend of vec.len() records.
append_unsized(tbl, vec, fault) == H5PTappend(tbl, Len(vec), vec, fault)

PacketTable_push(fault) ==
    /\ Idle
    /\ Len(table) + 1 <= MaxPackets
    /\ LET val == Fresh(1)[1]
           r == push(table, val, fault) IN
        /\ table' = r.table
        /\ last' = Call("push", r.ok, fault, 0, 1, <<val>>, <<>>, FALSE)
    /\ UNCHANGED <<index, cursors, wins, seeked, writerVars, obs, yielded, otherVars>>

PacketTable_append(n, fault) ==
    /\ Idle
    /\ Len(table) + n <= MaxPackets
    /\ LET slice == Fresh(n)
           r == append(table, slice, fault) IN
        /\ table' = r.table
        /\ last' = Call("append", r.ok, fault, 0, Len(slice), slice, <<>>, FALSE)
    /\ UNCHANGED <<index, cursors, wins, seeked, writerVars, obs, yielded, otherVars>>

PacketTable_append_unsized(n, fault) ==
    /\ Idle
    /\ Len(table) + n <= MaxPackets
    /\ LET vec == Fresh(n)
           r == append_unsized(table, vec, fault) IN
        /\ table' = r.table
        /\ last' = Call("append_unsized", r.ok, fault, 0, Len(vec), vec, <<>>, FALSE)
    /\ UNCHANGED <<index, cursors, wins, seeked, writerVars, obs, yielded, otherVars>>

\* PacketTable::num_packets
num_packets(tbl, fault) == H5PTget_num_packets(tbl, fault)

PacketTable_num_packets(fault) ==
    /\ Idle
    /\ LET r == num_packets(table, fault) IN
        last' = Call("num_packets", r.ok, fault, 0, 0,
                     IF r.ok THEN <<r.n>> ELSE <<>>, <<>>, FALSE)
    /\ UNCHANGED <<table, index, cursors, wins, seeked, writerVars, obs, yielded, otherVars>>

\* PacketTable::reset_index: H5PTcreate_index.
PacketTable_reset_index(fault) ==
    /\ Idle
    /\ LET r == H5PTcreate_index(index, fault) IN
        /\ index' = r.index
        /\ seeked' = Moved(r.index)
        /\ wins' = IF "wins" \in obs /\ r.ok THEN FreshWins ELSE wins
        /\ last' = Call("reset_index", r.ok, fault, 0, 0, <<>>, <<>>, FALSE)
    /\ UNCHANGED <<table, cursors, writerVars, obs, yielded, otherVars>>

\* PacketTable::set_index: H5PTset_index(id, index as _).
set_index_one_based(tbl, idx, i, fault) == H5PTset_index(tbl, idx, i + 1, fault)

set_index(tbl, idx, i, fault) == H5PTset_index(tbl, idx, i, fault)

PacketTable_set_index(i, fault) ==
    /\ Idle
    /\ LET r == set_index(table, index, i, fault) IN
        /\ index' = r.index
        /\ seeked' = Moved(r.index)
        /\ wins' = IF "wins" \in obs /\ r.ok
                   THEN (IF i = 0 THEN FreshWins ELSE NoWins) ELSE wins
        /\ last' = Call("set_index", r.ok, fault, i, 0, <<>>, <<>>, FALSE)
    /\ UNCHANGED <<table, cursors, writerVars, obs, yielded, otherVars>>

\* PacketTable::index: H5PTget_index.
PacketTable_index(fault) ==
    /\ Idle
    /\ LET r == H5PTget_index(index, fault) IN
        last' = Call("index", r.ok, fault, 0, 0,
                     IF r.ok THEN <<r.index>> ELSE <<>>, <<>>, FALSE)
    /\ UNCHANGED <<table, index, cursors, wins, seeked, writerVars, obs, yielded, otherVars>>

\* H5PTget_dataset(table_id) / H5PTget_type(table_id): the id the table
\* itself holds, with no reference added for the caller.
H5PTget_dataset(fault) == [ok |-> ~fault]
H5PTget_type(fault) == [ok |-> ~fault]

\* H5Iinc_ref(id): one more reference to id, or a negative value.
H5Iinc_ref(fault) == [ok |-> ~fault]

\* PacketTable::dataset: h5try!(H5PTget_dataset), then h5lock!(H5Iinc_ref)
\* whose value is dropped, then Ok.  refs: the references taken for the
\* Dataset returned; failed: an engine call that was made failed.
dataset(fault1, fault2) ==
    LET d == H5PTget_dataset(fault1) IN
    IF ~d.ok THEN [ok |-> FALSE, refs |-> 0, failed |-> TRUE]
    ELSE LET i == H5Iinc_ref(fault2) IN
         [ok |-> TRUE, refs |-> IF i.ok THEN 1 ELSE 0, failed |-> ~i.ok]

\* PacketTable::dtype: h5try!(H5PTget_type), then h5lock!(H5Iinc_ref), Ok.
dtype(fault1, fault2) ==
    LET t == H5PTget_type(fault1) IN
    IF ~t.ok THEN [ok |-> FALSE, refs |-> 0, failed |-> TRUE]
    ELSE LET i == H5Iinc_ref(fault2) IN
         [ok |-> TRUE, refs |-> IF i.ok THEN 1 ELSE 0, failed |-> ~i.ok]

PacketTable_dataset(fault1, fault2) ==
    /\ Idle
    /\ LET r == dataset(fault1, fault2) IN
        last' = Call("dataset", r.ok, r.failed, 0, 0,
                     IF r.ok THEN <<r.refs>> ELSE <<>>, <<>>, FALSE)
    /\ UNCHANGED <<table, index, cursors, wins, seeked, writerVars, obs, yielded, otherVars>>

PacketTable_dtype(fault1, fault2) ==
    /\ Idle
    /\ LET r == dtype(fault1, fault2) IN
        last' = Call("dtype", r.ok, r.failed, 0, 0,
                     IF r.ok THEN <<r.refs>> ELSE <<>>, <<>>, FALSE)
    /\ UNCHANGED <<table, index, cursors, wins, seeked, writerVars, obs, yielded, otherVars>>

\* PacketTable::read_impl: a Vec with room for len records is handed to f;
\* if f fails the error is returned and there is no Vec, otherwise the Vec's
\* length is set to len.  r is what the engine call made by f returned.
read_impl_unchecked(len, r) == [ok |-> TRUE, vec |-> r.data]

read_impl(len, r) ==
    IF r.ok THEN [ok |-> TRUE, vec |-> SubSeq(r.data, 1, len)]
    ELSE [ok |-> FALSE, vec |-> <<>>]

\* PacketTable::read: H5PTread_packets(start, len) within read_impl.
read_via_cursor(tbl, idx, start, len, fault) ==
    LET e == H5PTget_next(tbl, idx, len, fault)
        r == read_impl(len, e)
    IN  [ok |-> r.ok, vec |-> r.vec, index |-> e.index]

read(tbl, idx, start, len, fault) ==
    LET e == H5PTread_packets(tbl, start, len, fault)
        r == read_impl(len, e)
    IN  [ok |-> r.ok, vec |-> r.vec, index |-> idx]

\* PacketTable::read_next: H5PTget_next(len) within read_impl.
read_next_from_zero(tbl, idx, len, fault) ==
    LET e == H5PTread_packets(tbl, 0, len, fault)
        r == read_impl(len, e)
    IN  [ok |-> r.ok, vec |-> r.vec, index |-> idx]

read_next(tbl, idx, len, fault) ==
    LET e == H5PTget_next(tbl, idx, len, fault)
        r == read_impl(len, e)
    IN  [ok |-> r.ok, vec |-> r.vec, index |-> e.index]

\* PacketTable::read_unsized_impl: the buffer's length is raised by len only
\* after f succeeded; the records land behind the old_len records it held.
\* (A slot counted before it was filled is written -1 here.)
read_unsized_impl_early(len, buf, r) ==
    IF r.ok THEN [ok |-> TRUE, buffer |-> buf \o SubSeq(r.data, 1, len)]
    ELSE [ok |-> FALSE, buffer |-> buf \o [k \in 1..len |-> -1]]

read_unsized_impl(len, buf, r) ==
    IF r.ok THEN [ok |-> TRUE, buffer |-> buf \o SubSeq(r.data, 1, len)]
    ELSE [ok |-> FALSE, buffer |-> buf]

\* PacketTable::read_unsized
read_unsized(tbl, idx, start, len, buf, fault) ==
    LET e == H5PTread_packets(tbl, start, len, fault)
        r == read_unsized_impl(len, buf, e)
    IN  [ok |-> r.ok, buffer |-> r.buffer, index |-> idx]

\* PacketTable::read_next_unsized
read_next_unsized(tbl, idx, len, buf, fault) ==
    LET e == H5PTget_next(tbl, idx, len, fault)
        r == read_unsized_impl(len, buf, e)
    IN  [ok |-> r.ok, buffer |-> r.buffer, index |-> e.index]

PacketTable_read(start, len, fault) ==
    /\ Idle
    /\ LET r == read(table, index, start, len, fault) IN
        /\ index' = r.index
        /\ seeked' = Moved(r.index)
        /\ wins' = Unlogged(r.index)
        /\ last' = Call("read", r.ok, fault, start, len, r.vec, <<>>, FALSE)
    /\ UNCHANGED <<table, cursors, writerVars, obs, yielded, otherVars>>

PacketTable_read_unsized(start, len, old, fault) ==
    /\ Idle
    /\ LET buf == Old(old)
           r == read_unsized(table, index, start, len, buf, fault) IN
        /\ index' = r.index
        /\ seeked' = Moved(r.index)
        /\ wins' = Unlogged(r.index)
        /\ last' = Call("read_unsized", r.ok, fault, start, len, r.buffer, buf, FALSE)
    /\ UNCHANGED <<table, cursors, writerVars, obs, yielded, otherVars>>

PacketTable_read_next(len, fault) ==
    /\ Idle
    /\ ("wins" \in obs /\ wins.valid) => Len(wins.log) < MaxWins
    /\ LET r == read_next(table, index, len, fault) IN
        /\ index' = r.index
        /\ seeked' = Moved(r.index)
        /\ wins' = Logged(r.ok, r.vec)
        /\ last' = Call("read_next", r.ok, fault, 0, len, r.vec, <<>>, FALSE)
    /\ UNCHANGED <<table, cursors, writerVars, obs, yielded, otherVars>>

PacketTable_read_next_unsized(len, old, fault) ==
    /\ Idle
    /\ LET buf == Old(old)
           r == read_next_unsized(table, index, len, buf, fault) IN
        /\ index' = r.index
        /\ seeked' = Moved(r.index)
        /\ wins' = Unlogged(r.index)
        /\ last' = Call("read_next_unsized", r.ok, fault, 0, len, r.buffer, buf, FALSE)
    /\ UNCHANGED <<table, cursors, writerVars, obs, yielded, otherVars>>

\* What an iterator returned so far: the records of its Some(Ok(_)) steps;
\* seen: the count its last step read (-1 before the first); late: it
\* returned a record that was not yet in the table at the step before.
NoYield == [items |-> <<>>, seen |-> -1, late |-> FALSE]

\* PacketTable::iter: a closure owning `index = 0`.
PacketTable_iter(i) ==
    /\ Idle
    /\ cursors' = [cursors EXCEPT ![i] = 0]
    /\ yielded' = [yielded EXCEPT ![i] = NoYield]
    /\ last' = Call("iter", TRUE, FALSE, i, 0, <<>>, <<>>, FALSE)
    /\ UNCHANGED <<table, index, wins, seeked, writerVars, obs, otherVars>>

\* One call of the closure: num_packets()?, then if index < count one
\* H5PTread_packets(index, 1) and index += 1, else None.
\* kind: "item" (Some(Ok)), "err" (Some(Err)), "end" (None).
iter_next_end_early(tbl, idx, pos, fault1, fault2) ==
    LET c == num_packets(tbl, fault1) IN
    IF ~c.ok THEN [kind |-> "err", val |-> <<>>, pos |-> pos, index |-> idx]
    ELSE IF pos + 1 < c.n
    THEN LET e == H5PTread_packets(tbl, pos, 1, fault2) IN
         IF e.ok THEN [kind |-> "item", val |-> e.data, pos |-> pos + 1, index |-> idx]
         ELSE [kind |-> "err", val |-> <<>>, pos |-> pos, index |-> idx]
    ELSE [kind |-> "end", val |-> <<>>, pos |-> pos, index |-> idx]

iter_next_via_cursor(tbl, idx, pos, fault1, fault2) ==
    LET c == num_packets(tbl, fault1) IN
    IF ~c.ok THEN [kind |-> "err", val |-> <<>>, pos |-> pos, index |-> idx]
    ELSE IF pos < c.n
    THEN LET e == H5PTget_next(tbl, idx, 1, fault2) IN
         IF e.ok THEN [kind |-> "item", val |-> e.data, pos |-> pos + 1, index |-> e.index]
         ELSE [kind |-> "err", val |-> <<>>, pos |-> pos, index |-> idx]
    ELSE [kind |-> "end", val |-> <<>>, pos |-> pos, index |-> idx]

iter_next(tbl, idx, pos, fault1, fault2) ==
    LET c == num_packets(tbl, fault1) IN
    IF ~c.ok THEN [kind |-> "err", val |-> <<>>, pos |-> pos, index |-> idx]
    ELSE IF pos < c.n
    THEN LET e == H5PTread_packets(tbl, pos, 1, fault2) IN
         IF e.ok THEN [kind |-> "item", val |-> e.data, pos |-> pos + 1, index |-> idx]
         ELSE [kind |-> "err", val |-> <<>>, pos |-> pos, index |-> idx]
    ELSE [kind |-> "end", val |-> <<>>, pos |-> pos, index |-> idx]

\* `note` keeps whether the table's cursor moved since the last iterator step.
Iterator_next(i, fault1, fault2) ==
    /\ Idle
    /\ cursors[i] >= 0
    /\ LET r == iter_next(table, index, cursors[i], fault1, fault2) IN
        /\ index' = r.index
        /\ cursors' = [cursors EXCEPT ![i] = r.pos]
        /\ seeked' = FALSE
        /\ wins' = Unlogged(r.index)
        /\ yielded' = IF "yield" \in obs /\ r.kind # "err"
                      THEN [yielded EXCEPT ![i] =
                                [items |-> @.items \o r.val,
                                 seen |-> Len(table),
                                 late |-> @.late \/ (r.kind = "item" /\ @.seen >= 0
                                                     /\ cursors[i] >= @.seen)]]
                      ELSE yielded
        /\ last' = Call(r.kind, r.kind # "err", r.kind = "err", i, 1, r.val, <<>>,
                        seeked)
    /\ UNCHANGED <<table, writerVars, obs, otherVars>>

\* ------------------------------- PacketTableBufWriter (pt/buf_writer.rs)
\* PacketTableBufWriter::flush.  calls: the vectors handed to append_unsized.
flush_no_clear(tbl, buf, fault) ==
    IF buf # <<>>
    THEN LET r == append_unsized(tbl, buf, fault) IN
         [ok |-> r.ok, table |-> r.table, buffer |-> buf, calls |-> <<buf>>]
    ELSE [ok |-> TRUE, table |-> tbl, buffer |-> buf, calls |-> <<>>]

flush(tbl, buf, fault) ==
    IF buf # <<>>
    THEN LET r == append_unsized(tbl, buf, fault) IN
         IF r.ok
         THEN [ok |-> TRUE, table |-> r.table, buffer |-> <<>>, calls |-> <<buf>>]
         ELSE [ok |-> FALSE, table |-> r.table, buffer |-> buf, calls |-> <<buf>>]
    ELSE [ok |-> TRUE, table |-> tbl, buffer |-> buf, calls |-> <<>>]

\* PacketTableBufWriter::check_and_flush.  flushed: flush() invocations made.
check_and_flush_gt(tbl, buf, blen, fault) ==
    IF Len(buf) > blen
    THEN LET r == flush(tbl, buf, fault) IN
         [ok |-> r.ok, table |-> r.table, buffer |-> r.buffer, calls |-> r.calls,
          flushed |-> 1]
    ELSE [ok |-> TRUE, table |-> tbl, buffer |-> buf, calls |-> <<>>, flushed |-> 0]

check_and_flush(tbl, buf, blen, fault) ==
    IF Len(buf) >= blen
    THEN LET r == flush(tbl, buf, fault) IN
         [ok |-> r.ok, table |-> r.table, buffer |-> r.buffer, calls |-> r.calls,
          flushed |-> 1]
    ELSE [ok |-> TRUE, table |-> tbl, buffer |-> buf, calls |-> <<>>, flushed |-> 0]

\* A push that takes the record back out of the buffer when the flush it
\* triggered failed.
push_with_rollback(tbl, buf, blen, val, fault) ==
    LET r == check_and_flush(tbl, Append(buf, val), blen, fault) IN
    IF r.ok THEN r ELSE [r EXCEPT !.buffer = buf]

\* PacketTableBufWriter::push_with (and push, which calls it): the record
\* goes into the buffer, then check_and_flush.
push_with(tbl, buf, blen, val, fault) ==
    check_and_flush(tbl, Append(buf, val), blen, fault)

\* PacketTableBufWriter::push_clone
push_clone(tbl, buf, blen, val, fault) ==
    check_and_flush(tbl, Append(buf, val), blen, fault)

\* Drop for PacketTableBufWriter: flush().unwrap().  halt: the unwrap panicked.
drop_ignoring(tbl, buf, fault) ==
    LET r == flush(tbl, buf, fault) IN
    [halt |-> FALSE, table |-> r.table, buffer |-> r.buffer, calls |-> r.calls]

drop(tbl, buf, fault) ==
    LET r == flush(tbl, buf, fault) IN
    [halt |-> ~r.ok, table |-> r.table, buffer |-> r.buffer, calls |-> r.calls]

\* The capacity after one more record is put into a buffer holding len:
\* FixedVec::push_with makes room itself when the buffer is full (the test
\* of ext.rs pushes into FixedVec::new(6) with no reserve before it).
Grown_never(len) == cap

Grown(len) == IF len < cap THEN cap ELSE len + 1

FreshLog ==
    [pushed |-> <<>>, table0 |-> table, flushes |-> 0, explicit |-> 0,
     appends |-> <<>>, faults |-> FALSE, exit |-> "none"]

\* History of the writer after a call that pushed vals, invoked flush()
\* `flushed` times (`explicit` of them by the caller) and made `calls`.
Noted(vals, flushed, explicit, calls, ok, exit) ==
    IF "writer" \in obs
    THEN [wlog EXCEPT !.pushed = @ \o vals, !.flushes = @ + flushed,
                      !.explicit = @ + explicit, !.appends = @ \o calls,
                      !.faults = @ \/ (calls # <<>> /\ ~ok), !.exit = exit]
    ELSE wlog

\* PacketTableBufWriter::new / new_unsized / new_unsized_like
BufWriter_new(blen) ==
    /\ Idle
    /\ wphase' = "alive"
    /\ buf_len' = blen
    /\ buffer' = <<>>
    /\ cap' = blen
    /\ wlog' = IF "writer" \in obs THEN FreshLog ELSE wlog
    /\ last' = Call("new", TRUE, FALSE, 0, blen, <<>>, <<>>, FALSE)
    /\ UNCHANGED <<table, index, cursors, wins, seeked, obs, yielded, otherVars>>

BufWriter_push(fault) ==
    /\ wphase = "alive"
    /\ Len(table) + Len(buffer) < MaxPackets
    /\ LET val == Fresh(1)[1]
           r == push_with(table, buffer, buf_len, val, fault) IN
        /\ table' = r.table
        /\ buffer' = r.buffer
        /\ cap' = Grown(Len(buffer))
        /\ wlog' = Noted(<<val>>, r.flushed, 0, r.calls, r.ok, "none")
        /\ last' = Call("buf_push", r.ok, ~r.ok, 0, 1, <<val>>, buffer, FALSE)
    /\ UNCHANGED <<index, cursors, wins, seeked, wphase, buf_len, obs, yielded, otherVars>>

BufWriter_push_clone(fault) ==
    /\ wphase = "alive"
    /\ Len(table) + Len(buffer) < MaxPackets
    /\ LET val == Fresh(1)[1]
           r == push_clone(table, buffer, buf_len, val, fault) IN
        /\ table' = r.table
        /\ buffer' = r.buffer
        /\ cap' = Grown(Len(buffer))
        /\ wlog' = Noted(<<val>>, r.flushed, 0, r.calls, r.ok, "none")
        /\ last' = Call("buf_push_clone", r.ok, ~r.ok, 0, 1, <<val>>, buffer, FALSE)
    /\ UNCHANGED <<index, cursors, wins, seeked, wphase, buf_len, obs, yielded, otherVars>>

\* push(val) once more with the value of the push that has just returned an
\* error: the caller took the error for "record not accepted".
BufWriter_push_again(fault) ==
    /\ wphase = "alive"
    /\ last.op \in {"buf_push", "buf_push_clone"}
    /\ ~last.ok
    /\ Len(table) + Len(buffer) < MaxPackets
    /\ LET val == last.ret[1]
           r == push_with(table, buffer, buf_len, val, fault) IN
        /\ table' = r.table
        /\ buffer' = r.buffer
        /\ cap' = Grown(Len(buffer))
        /\ wlog' = Noted(<<val>>, r.flushed, 0, r.calls, r.ok, "none")
        /\ last' = Call("buf_push", r.ok, ~r.ok, 0, 1, <<val>>, buffer, FALSE)
    /\ UNCHANGED <<index, cursors, wins, seeked, wphase, buf_len, obs, yielded, otherVars>>

BufWriter_flush(fault) ==
    /\ wphase = "alive"
    /\ "writer" \in obs => wlog.flushes < MaxFlushes
    /\ LET r == flush(table, buffer, fault) IN
        /\ table' = r.table
        /\ buffer' = r.buffer
        /\ wlog' = Noted(<<>>, 1, 1, r.calls, r.ok, "none")
        /\ last' = Call("buf_flush", r.ok, ~r.ok, 0, Len(r.calls), <<>>, buffer, FALSE)
    /\ UNCHANGED <<index, cursors, wins, seeked, wphase, buf_len, cap, obs, yielded, otherVars>>

\* The writer leaves its scope: how = "scope" at the end of the block,
\* how = "unwind" when a panic unwinds through it.  Both run Drop.
BufWriter_drop(how, fault) ==
    /\ wphase = "alive"
    /\ LET r == drop(table, buffer, fault) IN
        /\ table' = r.table
        /\ wphase' = IF r.halt THEN "halted" ELSE "gone"
        /\ buffer' = <<>>
        /\ wlog' = Noted(<<>>, 1, 0, r.calls, ~r.halt, how)
        /\ last' = Call("buf_drop", ~r.halt, r.halt, 0, Len(r.calls), <<>>, buffer, FALSE)
    /\ UNCHANGED <<index, cursors, wins, seeked, buf_len, cap, obs, yielded, otherVars>>

\* ------------------------------------- create, open, Drop (pt.rs 82-87, 268-390)
\* A PacketTable value is followed from the call that makes it to its Drop.
\* The names a caller may hand in; a name of NulNames holds a NUL byte.
ValidNames == {"data", "log"}
NulNames == {"da<NUL>ta"}

NoHandle == [state |-> "none", name |-> "", failed |-> FALSE, closes |-> 0]
NoLife ==
    [op |-> "none", h |-> 0, name |-> "", chunk |-> <<>>, plist |-> "none",
     result |-> "ok", ecalls |-> <<>>, made |-> 0, chunk_size |-> <<>>]

\* A panic of Drop's unwrap halts the program.
Running == \A h \in 1..MaxHandles : handles[h].state # "halted"

\* CString::new(name): refused when the name holds a NUL byte.
CString_new(name) == [ok |-> name \notin NulNames]

\* H5PTcreate(loc_id, dset_name, dtype_id, chunk_size, plist_id): a chunk_size
\* above 0 is set on the copy of the property list; a table cannot be made
\* without chunking, nor under a name that is taken.
H5PTcreate(names, name, chunk_size, plist, fault) ==
    IF fault \/ name \in names \/ (chunk_size = 0 /\ plist # "chunked")
    THEN [ok |-> FALSE, names |-> names]
    ELSE [ok |-> TRUE, names |-> names \cup {name}]

\* H5PTopen(loc_id, dset_name)
H5PTopen(names, name, fault) == [ok |-> ~fault /\ name \in names]

\* H5PTclose(table_id)
H5PTclose(fault) == [ok |-> ~fault]

\* H5PTis_valid(table_id)
H5PTis_valid(fault) == [ok |-> ~fault]

\* DatasetCreate::chunk() of the hdf5 crate: asks the engine for the layout of
\* the property list; None when it is not chunked or the engine fails.
plist_chunk(plist, fault) == plist = "chunked" /\ ~fault

\* PacketTableBuilder::create.  b: the builder, chunk <<>> for None and <<c>>
\* for Some(c), plist "none" for None.  called, made: the engine calls made
\* and the engine objects created before this function was entered.
builder_create(names, b, name, called, made, faultp, faultc) ==
    LET asked == IF b.plist # "none"
                 THEN Append(called, "H5Pget_layout") ELSE called IN
    IF \/ (b.plist # "none" /\ ~plist_chunk(b.plist, faultp))
       \/ (b.plist = "none" /\ b.chunk = <<>>)
    THEN [result |-> "config", names |-> names, ecalls |-> asked,
          made |-> made, chunk_size |-> <<>>]
    ELSE IF ~CString_new(name).ok
    THEN [result |-> "name", names |-> names, ecalls |-> asked,
          made |-> made, chunk_size |-> <<>>]
    ELSE LET size == IF b.chunk = <<>> THEN 0 ELSE b.chunk[1]
             r == H5PTcreate(names, name, size,
                             IF b.plist = "none" THEN "default" ELSE b.plist,
                             faultc) IN
         [result |-> IF r.ok THEN "ok" ELSE "engine", names |-> r.names,
          ecalls |-> Append(asked, "H5PTcreate"),
          made |-> IF r.ok THEN made + 1 ELSE made, chunk_size |-> <<size>>]

\* PacketTableBuilderTyped::create: Datatype::from_descriptor(&self.dtype)?
\* makes the engine's datatype object, then PacketTableBuilder::create runs.
typed_create(names, b, name, faultt, faultp, faultc) ==
    IF faultt
    THEN [result |-> "engine", names |-> names,
          ecalls |-> <<"Datatype::from_descriptor">>, made |-> 0,
          chunk_size |-> <<>>]
    ELSE builder_create(names, b, name, <<"Datatype::from_descriptor">>, 1,
                        faultp, faultc)

\* PacketTable::open: CString::new(name), then H5PTopen.
open(names, name, fault) ==
    IF ~CString_new(name).ok
    THEN [result |-> "name", ecalls |-> <<>>, made |-> 0]
    ELSE LET r == H5PTopen(names, name, fault) IN
         [result |-> IF r.ok THEN "ok" ELSE "engine", ecalls |-> <<"H5PTopen">>,
          made |-> IF r.ok THEN 1 ELSE 0]

\* Drop for PacketTable: h5call!(H5PTclose(self.id())).unwrap().
\* closes: the H5PTclose calls made; halt: the unwrap panicked.
PacketTable_drop_ignoring(fault) ==
    LET r == H5PTclose(fault) IN [closes |-> 1, halt |-> FALSE]

PacketTable_drop(fault) ==
    LET r == H5PTclose(fault) IN [closes |-> 1, halt |-> ~r.ok]

Opened(h, name, result) ==
    IF result = "ok"
    THEN [handles EXCEPT ![h] = [state |-> "open", name |-> name,
                                 failed |-> FALSE, closes |-> 0]]
    ELSE handles

\* PacketTable::builder(loc) [.plist(p)] [.chunk(c)] .dtype::<T>() .create(name)
Builder_create(h, name, chunk, plist, faultt, faultp, faultc) ==
    /\ Running
    /\ handles[h].state = "none"
    /\ LET b == [chunk |-> chunk, plist |-> plist]
           r == typed_create(file, b, name, faultt, faultp, faultc) IN
        /\ file' = r.names
        /\ handles' = Opened(h, name, r.result)
        /\ life' = [op |-> "create", h |-> h, name |-> name, chunk |-> chunk,
                    plist |-> plist, result |-> r.result, ecalls |-> r.ecalls,
                    made |-> r.made, chunk_size |-> r.chunk_size]
    /\ UNCHANGED <<table, index, cursors, wins, seeked, writerVars, last, obs,
                   yielded, layoutVars, restVars>>

PacketTable_open(h, name, fault) ==
    /\ Running
    /\ handles[h].state = "none"
    /\ LET r == open(file, name, fault) IN
        /\ handles' = Opened(h, name, r.result)
        /\ life' = [op |-> "open", h |-> h, name |-> name, chunk |-> <<>>,
                    plist |-> "none", result |-> r.result, ecalls |-> r.ecalls,
                    made |-> r.made, chunk_size |-> <<>>]
    /\ UNCHANGED <<table, index, cursors, wins, seeked, writerVars, last, obs,
                   yielded, file, layoutVars, restVars>>

\* PacketTable::validate: an operation on a live handle that may fail.
PacketTable_validate(h, fault) ==
    /\ Running
    /\ handles[h].state = "open"
    /\ LET r == H5PTis_valid(fault) IN
        /\ handles' = [handles EXCEPT ![h].failed = @ \/ ~r.ok]
        /\ life' = [op |-> "validate", h |-> h, name |-> handles[h].name,
                    chunk |-> <<>>, plist |-> "none",
                    result |-> IF r.ok THEN "ok" ELSE "engine",
                    ecalls |-> <<"H5PTis_valid">>, made |-> 0, chunk_size |-> <<>>]
    /\ UNCHANGED <<table, index, cursors, wins, seeked, writerVars, last, obs,
                   yielded, file, layoutVars, restVars>>

\* The handle leaves its scope; its Drop runs.
PacketTable_scope_end(h, fault) ==
    /\ Running
    /\ handles[h].state = "open"
    /\ LET r == PacketTable_drop(fault) IN
        /\ handles' = [handles EXCEPT
                            ![h].state = IF r.halt THEN "halted" ELSE "closed",
                            ![h].closes = @ + r.closes]
        /\ life' = [op |-> "drop", h |-> h, name |-> handles[h].name,
                    chunk |-> <<>>, plist |-> "none",
                    result |-> IF r.halt THEN "halt"
                               ELSE IF fault THEN "ignored" ELSE "ok",
                    ecalls |-> [k \in 1..r.closes |-> "H5PTclose"], made |-> 0,
                    chunk_size |-> <<>>]
    /\ UNCHANGED <<table, index, cursors, wins, seeked, writerVars, last, obs,
                   yielded, file, layoutVars, restVars>>

\* ------------------- type descriptors (hdf5-dst/src/lib.rs, hdf5-dst-derive)
\* std::alloc::Layout of a value: its size and its alignment.
L(size, align) == [size |-> size, align |-> align]

\* Layout::for_value of the sized field types of the model: u8, i16, i32 or
\* f32, i64 or f64, [f32; 3], [i32; 0].
SizedLayouts == {L(1, 1), L(2, 2), L(4, 4), L(8, 8), L(12, 4), L(0, 4)}
\* The element types of a tail: u8, f32, i64.
ElemLayouts == {L(1, 1), L(4, 4), L(8, 8)}

\* Layout::for_value(&self.slice) of a [T] with n elements, and of a str of
\* n bytes.
SliceLayout(elem, n) == L(n * elem.size, elem.align)
StrLayout(n) == L(n, 1)

Max(a, b) == IF a >= b THEN a ELSE b

\* Layout::padding_needed_for: size rounded up to a multiple of align.
RoundUp(size, align) == ((size + align - 1) \div align) * align

\* Layout::extend(next): (the layout of self followed by next, the offset of
\* next in it).
Layout_extend_packed(layout, next) ==
    [layout |-> L(layout.size + next.size, Max(layout.align, next.align)),
     offset |-> layout.size]

Layout_extend_next(layout, next) ==
    LET offset == (layout.size \div next.align + 1) * next.align IN
    [layout |-> L(offset + next.size, Max(layout.align, next.align)),
     offset |-> offset]

Layout_extend_unpadded(layout, next) ==
    [layout |-> L(layout.size + next.size, Max(layout.align, next.align)),
     offset |-> RoundUp(layout.size, next.align)]

Layout_extend(layout, next) ==
    LET offset == RoundUp(layout.size, next.align) IN
    [layout |-> L(offset + next.size, Max(layout.align, next.align)),
     offset |-> offset]

\* Layout::pad_to_align
pad_to_align_none(layout) == layout

pad_to_align(layout) == L(RoundUp(layout.size, layout.align), layout.align)

\* CompoundField::new(name, ty, offset, index); size is the size of ty.
CompoundField(ty, offset, i) ==
    [offset |-> offset, index |-> i, size |-> ty.size]

\* The statements map_compound generates, one per field in declaration
\* order: extend the layout by the field, push its CompoundField.
RECURSIVE map_compound(_, _, _)
map_compound(fs, layout, fields) ==
    IF fs = <<>> THEN [layout |-> layout, fields |-> fields]
    ELSE LET e == Layout_extend(layout, Head(fs)) IN
         map_compound(Tail(fs), e.layout,
                      Append(fields, CompoundField(Head(fs), e.offset, Len(fields))))

\* type_descriptor() as derive(H5TypeUnsized) generates it, for a record
\* whose fields have the layouts fs.
derive_h5type_unsized(fs) ==
    LET m == map_compound(fs, L(0, 1), <<>>)
        layout == pad_to_align(m.layout)
    IN  [fields |-> m.fields, kind |-> "compound", size |-> layout.size, align |-> layout.align]

\* H5TypeUnsized for UnsizedSlice<H, T>: "header", then "slice".
UnsizedSlice_type_descriptor(header, slice) ==
    LET h == Layout_extend(L(0, 1), header)
        s == Layout_extend(h.layout, slice)
        layout == pad_to_align(s.layout)
    IN  [fields |-> <<CompoundField(header, h.offset, 0),
                      CompoundField(slice, s.offset, 1)>>,
         kind |-> "compound", size |-> layout.size, align |-> layout.align]

\* H5TypeUnsized for UnsizedStr<H>: "header", then "str".
UnsizedStr_type_descriptor(header, str) ==
    LET h == Layout_extend(L(0, 1), header)
        s == Layout_extend(h.layout, str)
        layout == pad_to_align(s.layout)
    IN  [fields |-> <<CompoundField(header, h.offset, 0),
                      CompoundField(str, s.offset, 1)>>,
         kind |-> "compound", size |-> layout.size, align |-> layout.align]

NoType == [kind |-> "none", fields |-> <<>>, size |-> 0, align |-> 1]
NoDecl == [kind |-> "none", head |-> <<>>, tail |-> <<>>]

\* The record types of the model: a derived struct of up to MaxFields sized
\* fields, then no tail or a tail <<[elem, n]>> of n elements; an
\* UnsizedSlice<H, T> of n elements; an UnsizedStr<H> of n bytes.
Heads == UNION {[1..k -> SizedLayouts] : k \in 0..MaxFields}
Tails == {<<>>} \cup {<<[elem |-> e, n |-> n]>> : e \in ElemLayouts, n \in 0..MaxTail}
Decls ==
    {[kind |-> "derive", head |-> h, tail |-> t] : h \in Heads, t \in Tails}
    \cup {[kind |-> "slice", head |-> <<h>>, tail |-> <<[elem |-> e, n |-> n]>>] :
                h \in SizedLayouts, e \in ElemLayouts, n \in 0..MaxTail}
    \cup {[kind |-> "str", head |-> <<h>>, tail |-> <<[elem |-> L(1, 1), n |-> n]>>] :
                h \in SizedLayouts, n \in 0..MaxTail}

\* Layout::for_value of the tail field, if the record has one.
TailLayout(tail) ==
    IF tail = <<>> THEN <<>> ELSE <<SliceLayout(tail[1].elem, tail[1].n)>>

\* The repr attributes find_repr lets through for a derived struct: it looks
\* for the word C (or transparent, a struct of one field, laid out as with
\* C) and passes over any other word of the list, such as packed.
\* UnsizedSlice and UnsizedStr are declared repr(C).
Reprs(d) == IF d.kind = "derive" THEN {"C", "C, packed"} ELSE {"C"}

\* Layout::for_value(self): the layout the compiler gave the record.  With
\* repr(C) each field lies at the next multiple of its alignment and the
\* size is rounded up to the largest alignment; with packed the fields lie
\* back to back and the alignment is 1.
RECURSIVE EndOf(_, _, _)
EndOf(fs, r, off) ==
    IF fs = <<>> THEN off
    ELSE EndOf(Tail(fs), r,
               (IF r = "C" THEN RoundUp(off, Head(fs).align) ELSE off) + Head(fs).size)

RECURSIVE AlignOf(_, _)
AlignOf(fs, r) ==
    IF fs = <<>> \/ r # "C" THEN 1 ELSE Max(Head(fs).align, AlignOf(Tail(fs), r))

Layout_for_value(fs, r) ==
    L(RoundUp(EndOf(fs, r, 0), AlignOf(fs, r)), AlignOf(fs, r))

\* debug_assert_eq!(left, right): compiled to nothing unless the build has
\* debug assertions; TRUE when it panics.
debug_assert_eq_never(left, right) == FALSE

debug_assert_eq(left, right) == debug_assertions /\ left # right

\* The panic of the assertion; its message shows the layout computed.
Panicked(t) == [kind |-> "panic", fields |-> <<>>, size |-> t.size, align |-> t.align]

\* The end of every type_descriptor(): t is the descriptor of the padded
\* layout, checked against Layout::for_value(self) before it is returned.
type_descriptor(t, fs) ==
    IF debug_assert_eq(L(t.size, t.align), Layout_for_value(fs, repr))
    THEN Panicked(t) ELSE t

\* type_descriptor() of a value of a #[derive(H5TypeUnsized)] #[repr(C)] struct
Derived_type_descriptor ==
    /\ decl.kind = "derive"
    /\ td.kind = "none"
    /\ LET fs == decl.head \o TailLayout(decl.tail) IN
        td' = type_descriptor(derive_h5type_unsized(fs), fs)
    /\ UNCHANGED <<table, index, cursors, wins, seeked, writerVars, last, obs,
                   yielded, lifeVars, decl, restVars>>

\* type_descriptor() of an UnsizedSlice<H, T>
Slice_type_descriptor ==
    /\ decl.kind = "slice"
    /\ td.kind = "none"
    /\ LET fs == decl.head \o TailLayout(decl.tail) IN
        td' = type_descriptor(UnsizedSlice_type_descriptor(fs[1], fs[2]), fs)
    /\ UNCHANGED <<table, index, cursors, wins, seeked, writerVars, last, obs,
                   yielded, lifeVars, decl, restVars>>

\* type_descriptor() of an UnsizedStr<H>
Str_type_descriptor ==
    /\ decl.kind = "str"
    /\ td.kind = "none"
    /\ LET fs == <<decl.head[1], StrLayout(decl.tail[1].n)>> IN
        td' = type_descriptor(UnsizedStr_type_descriptor(fs[1], fs[2]), fs)
    /\ UNCHANGED <<table, index, cursors, wins, seeked, writerVars, last, obs,
                   yielded, lifeVars, decl, restVars>>

\* ------------- datasets and attributes (hdf5-dst/src/ext.rs, container_ext.rs)
\* A container of the engine: shape <<>> (scalar, one element) or <<n>>;
\* data: its elements; orig: the records its creator handed in; written:
\* the creator's write succeeded; halted: a panic ended the program.
NoCont ==
    [kind |-> "none", shape |-> <<>>, data |-> <<>>, orig |-> <<>>,
     written |-> FALSE, halted |-> FALSE]

\* The number of elements H5S_ALL selects.
Count(c) == IF c.shape = <<>> THEN 1 ELSE c.shape[1]

\* The engine calls of write_container and read_container, in order:
\* c.dtype(), Datatype::from_descriptor, H5Awrite/H5Dwrite or H5Aread/H5Dread.
\* At most one of them fails in a call.
Faults == {"none", "dtype", "from_descriptor", "transfer"}

\* H5Dwrite / H5Awrite with H5S_ALL: every element of the container is
\* taken from buf (-1: memory behind the end of buf).
H5Dwrite(c, buf, fault) ==
    IF fault THEN [ok |-> FALSE, data |-> c.data]
    ELSE [ok |-> TRUE,
          data |-> [k \in 1..Count(c) |-> IF k <= Len(buf) THEN buf[k] ELSE -1]]

\* H5Dread / H5Aread with H5S_ALL: every element of the container.
H5Dread(c, fault) ==
    IF fault THEN [ok |-> FALSE, data |-> <<>>] ELSE [ok |-> TRUE, data |-> c.data]

\* write_container / read_container: each engine call is followed by `?`.
write_container(c, buf, fault) ==
    IF fault \in {"dtype", "from_descriptor"} THEN [ok |-> FALSE, data |-> c.data]
    ELSE H5Dwrite(c, buf, fault = "transfer")

read_container(c, fault) ==
    IF fault \in {"dtype", "from_descriptor"} THEN [ok |-> FALSE, data |-> <<>>]
    ELSE H5Dread(c, fault = "transfer")

\* ContainerExt::write_unsized (ext.rs)
ContainerExt_write_unsized(c, v, fault) ==
    IF debug_assert_eq(Len(c.shape), 1) \/ debug_assert_eq(Count(c), Len(v))
    THEN [result |-> "panic", data |-> c.data]
    ELSE LET w == write_container(c, v, fault) IN
         [result |-> IF w.ok THEN "ok" ELSE "err", data |-> w.data]

\* ContainerExt::write_scalar_unsized (ext.rs)
ContainerExt_write_scalar_unsized(c, val, fault) ==
    IF debug_assert_eq(Len(c.shape), 0)
    THEN [result |-> "panic", data |-> c.data]
    ELSE LET w == write_container(c, val, fault) IN
         [result |-> IF w.ok THEN "ok" ELSE "err", data |-> w.data]

\* UnsizedData::shape: () for a scalar reference, vec.len() for a vector.
UnsizedData_shape_scalar(data) == <<>>

UnsizedData_shape(data) == IF data.scalar THEN <<>> ELSE <<Len(data.recs)>>

\* DatasetBuilderDataUnsized::create / AttributeBuilderDataUnsized::create:
\* the container is created with the shape of the data, then written.  A
\* container whose write failed stays, holding the fill value (0).
DataUnsized_create(c0, kind, data, faultc, fault) ==
    IF faultc THEN [result |-> "err", cont |-> c0]
    ELSE LET shape == UnsizedData_shape(data)
             made == [kind |-> kind, shape |-> shape,
                      data |-> [k \in 1..(IF shape = <<>> THEN 1 ELSE shape[1]) |-> 0],
                      orig |-> data.recs, written |-> FALSE, halted |-> FALSE]
             w == IF data.scalar
                  THEN ContainerExt_write_scalar_unsized(made, data.recs, fault)
                  ELSE ContainerExt_write_unsized(made, data.recs, fault)
         IN  [result |-> w.result,
              cont |-> [made EXCEPT !.data = w.data, !.written = (w.result = "ok"),
                                    !.halted = (w.result = "panic")]]

\* The elements of a FixedVec that held v after the engine wrote data at
\* element position `at` and set_len(len); -1: a slot counted but never
\* written.
Filled(v, at, data, len) ==
    [k \in 1..len |->
        IF k > at /\ k <= at + Len(data) THEN data[k - at]
        ELSE IF k <= Len(v) THEN v[k] ELSE -1]

\* ContainerExt::read (container_ext.rs): the pointer handed to the engine
\* is v.as_mut_ptr(), the start of the vector.  self.shape()[0] panics on
\* a scalar container.
ContainerExt_read(c, v, fault) ==
    IF debug_assert_eq(Len(c.shape), 0) \/ c.shape = <<>>
    THEN [result |-> "panic", vec |-> v]
    ELSE LET new_len == c.shape[1]
             r == read_container(c, fault) IN
         IF r.ok
         THEN [result |-> "ok", vec |-> Filled(v, 0, r.data, Len(v) + new_len)]
         ELSE [result |-> "err", vec |-> v]

\* ContainerExt::read_unsized (ext.rs): the pointer handed to the engine is
\* that of element old_len.
ContainerExt_read_unsized_early(c, v, fault) ==
    IF debug_assert_eq(Len(c.shape), 1) \/ c.shape = <<>>
    THEN [result |-> "panic", vec |-> v]
    ELSE LET old_len == Len(v)
             new_len == c.shape[1]
             r == read_container(c, fault) IN
         [result |-> IF r.ok THEN "ok" ELSE "err",
          vec |-> Filled(v, old_len, r.data, old_len + new_len)]

ContainerExt_read_unsized(c, v, fault) ==
    IF debug_assert_eq(Len(c.shape), 1) \/ c.shape = <<>>
    THEN [result |-> "panic", vec |-> v]
    ELSE LET old_len == Len(v)
             new_len == c.shape[1]
             r == read_container(c, fault) IN
         IF r.ok
         THEN [result |-> "ok", vec |-> Filled(v, old_len, r.data, old_len + new_len)]
         ELSE [result |-> "err", vec |-> v]

\* ContainerExt::read_scalar_unsized (ext.rs): the engine writes into val.
ContainerExt_read_scalar_unsized(c, fault) ==
    IF debug_assert_eq(Len(c.shape), 0)
    THEN [result |-> "panic", val |-> <<>>]
    ELSE LET r == read_container(c, fault) IN
         IF r.ok THEN [result |-> "ok", val |-> r.data]
         ELSE [result |-> "err", val |-> <<>>]

\* builder.with_data_unsized(&vec).create(name), or (&record) for a scalar.
\* The k-th record of the data is k.
Builder_with_data_create(kind, scalar, n, faultc, fault) ==
    /\ ~cont.halted
    /\ scalar => n = 1
    /\ LET data == [scalar |-> scalar, recs |-> [k \in 1..n |-> k]]
           r == DataUnsized_create(cont, kind, data, faultc, fault) IN
        /\ cont' = r.cont
        /\ last' = Call(IF scalar THEN "with_data_unsized(&record)"
                        ELSE "with_data_unsized(&vec)", r.result = "ok",
                        faultc \/ fault # "none", 0, n, data.recs, <<>>,
                        r.result = "panic")
    /\ UNCHANGED <<table, index, cursors, wins, seeked, writerVars, obs, yielded,
                   lifeVars, layoutVars, buildVars, lockVars>>

\* container.read_unsized(&mut v), v holding `old` records read earlier.
Container_read_unsized(old, fault) ==
    /\ cont.kind # "none" /\ ~cont.halted
    /\ LET v == Old(old)
           r == ContainerExt_read_unsized(cont, v, fault) IN
        /\ cont' = [cont EXCEPT !.halted = (r.result = "panic")]
        /\ last' = Call("ContainerExt::read_unsized", r.result = "ok", fault # "none",
                        0, Count(cont), r.vec, v, r.result = "panic")
    /\ UNCHANGED <<table, index, cursors, wins, seeked, writerVars, obs, yielded,
                   lifeVars, layoutVars, buildVars, lockVars>>

\* container.read(&mut v) of container_ext.rs
Container_read(old, fault) ==
    /\ cont.kind # "none" /\ ~cont.halted
    /\ LET v == Old(old)
           r == ContainerExt_read(cont, v, fault) IN
        /\ cont' = [cont EXCEPT !.halted = (r.result = "panic")]
        /\ last' = Call("ContainerExt::read", r.result = "ok", fault # "none",
                        0, Count(cont), r.vec, v, r.result = "panic")
    /\ UNCHANGED <<table, index, cursors, wins, seeked, writerVars, obs, yielded,
                   lifeVars, layoutVars, buildVars, lockVars>>

\* container.read_scalar_unsized(&mut val) on a scalar container ("Reads a
\* scalar dataset/attribute").
Container_read_scalar_unsized(fault) ==
    /\ cont.kind # "none" /\ ~cont.halted
    /\ cont.shape = <<>>
    /\ LET r == ContainerExt_read_scalar_unsized(cont, fault) IN
        /\ cont' = [cont EXCEPT !.halted = (r.result = "panic")]
        /\ last' = Call("ContainerExt::read_scalar_unsized", r.result = "ok",
                        fault # "none", 0, 1, r.val, <<>>, r.result = "panic")
    /\ UNCHANGED <<table, index, cursors, wins, seeked, writerVars, obs, yielded,
                   lifeVars, layoutVars, buildVars, lockVars>>

\* ------------------------------------------- the engine lock (h5lock!)
\* The engine calls an operation makes, in order.  "sync": the call runs
\* inside h5lock!/h5call!/h5try!, which take the lock of the hdf5 crate
\* for the call and release it after; "bare": h5check(unsafe { .. }), the
\* call with no lock taken.  c.dtype(), Datatype::from_descriptor and
\* id_type take the lock themselves.
\*   "PacketTable": any operation of pt.rs that is one h5try! or h5call!
\*   "dataset": PacketTable::dataset / dtype, h5try! then h5lock!
\*   "ext": write_container / read_container of ext.rs
\*   "container_ext": write_container / read_container of container_ext.rs
Operations == {"PacketTable", "dataset", "ext", "container_ext"}

CallsOf(op) ==
    CASE op = "PacketTable" -> <<"sync">>
      [] op = "dataset" -> <<"sync", "sync">>
      [] op = "ext" -> <<"sync", "sync", "sync", "sync">>
      [] op = "container_ext" -> <<"sync", "sync", "sync", "bare">>

\* A thread outside the library; the lock, free.  depth: how many times
\* its owner has taken it (the lock is re-entrant).
NoThread == [op |-> "none", k |-> 0, inside |-> FALSE]
Unlocked == [owner |-> 0, depth |-> 0]

\* Thread t calls an operation (on a handle or container of its own).
Thread_call(t, op) ==
    /\ threads[t].op = "none"
    /\ threads' = [threads EXCEPT ![t] = [op |-> op, k |-> 1, inside |-> FALSE]]
    /\ UNCHANGED <<table, index, cursors, wins, seeked, writerVars, last, obs, yielded,
                   lifeVars, layoutVars, buildVars, contVars, lock>>

\* Thread t starts its next engine call: a "sync" call waits for the lock
\* and takes it, a "bare" call goes straight into the engine.
Thread_enter(t) ==
    /\ threads[t].op # "none" /\ ~threads[t].inside
    /\ LET how == CallsOf(threads[t].op)[threads[t].k] IN
        IF how = "sync"
        THEN /\ lock.owner \in {0, t}
             /\ lock' = [owner |-> t, depth |-> lock.depth + 1]
        ELSE lock' = lock
    /\ threads' = [threads EXCEPT ![t].inside = TRUE]
    /\ UNCHANGED <<table, index, cursors, wins, seeked, writerVars, last, obs, yielded,
                   lifeVars, layoutVars, buildVars, contVars>>

\* The engine call of thread t returns; a lock taken for it is released.
\* After its last call the operation returns.
Thread_exit(t) ==
    /\ threads[t].inside
    /\ LET calls == CallsOf(threads[t].op)
           k == threads[t].k IN
        /\ lock' = IF calls[k] = "sync"
                    THEN (IF lock.depth = 1 THEN Unlocked
                          ELSE [lock EXCEPT !.depth = @ - 1])
                    ELSE lock
        /\ threads' = [threads EXCEPT ![t] =
                            IF k = Len(calls) THEN NoThread
                            ELSE [op |-> @.op, k |-> k + 1, inside |-> FALSE]]
    /\ UNCHANGED <<table, index, cursors, wins, seeked, writerVars, last, obs, yielded,
                   lifeVars, layoutVars, buildVars, contVars>>

\* -------------------------------------------------------- specifications
\* The state after the table was created (tbl empty) or opened (tbl: the
\* records it holds), before record type d, declared with repr r, is
\* described, in a build with (dbg) or without debug assertions, beside
\* the dataset or attribute c.
InitFull(o, tbl, d, r, dbg, c) ==
    /\ table = tbl
    /\ index = 0
    /\ cursors = [i \in 1..MaxIters |-> -1]
    /\ wphase = "none"
    /\ buf_len = 0
    /\ buffer = <<>>
    /\ cap = 0
    /\ wins = FreshWins
    /\ seeked = FALSE
    /\ wlog = FreshLog
    /\ last = [op |-> "create", ok |-> TRUE, fault |-> FALSE, start |-> 0,
               n |-> 0, ret |-> <<>>, buf0 |-> <<>>, note |-> FALSE]
    /\ obs = o
    /\ yielded = [i \in 1..MaxIters |-> NoYield]
    /\ file = {}
    /\ handles = [h \in 1..MaxHandles |-> NoHandle]
    /\ life = NoLife
    /\ decl = d
    /\ td = NoType
    /\ repr = r
    /\ debug_assertions = dbg
    /\ cont = c
    /\ threads = [t \in 1..MaxThreads |-> NoThread]
    /\ lock = Unlocked

InitBuild(o, tbl, d, r, dbg) == InitFull(o, tbl, d, r, dbg, NoCont)

\* No action of the table, the writer or the handle's life reads the build.
InitWith(o, tbl, d) == InitBuild(o, tbl, d, "C", FALSE)

InitObs(o) == InitWith(o, <<>>, NoDecl)

Pushes == \E fault \in BOOLEAN : PacketTable_push(fault)

Appends ==
    \/ Pushes
    \/ \E n \in 0..MaxCount, fault \in BOOLEAN : PacketTable_append(n, fault)
    \/ \E n \in 0..MaxCount, fault \in BOOLEAN : PacketTable_append_unsized(n, fault)

Seeks ==
    \/ \E fault \in BOOLEAN : PacketTable_reset_index(fault)
    \/ \E i \in 0..MaxPackets, fault \in BOOLEAN : PacketTable_set_index(i, fault)
    \/ \E len \in 0..MaxCount, fault \in BOOLEAN : PacketTable_read_next(len, fault)

NextUnsized ==
    \E len \in 0..MaxCount, old \in 0..MaxOld, fault \in BOOLEAN :
        PacketTable_read_next_unsized(len, old, fault)

Reads ==
    \/ \E fault \in BOOLEAN : PacketTable_num_packets(fault)
    \/ \E fault \in BOOLEAN : PacketTable_index(fault)
    \/ \E start \in 0..MaxPackets, len \in 0..MaxCount, fault \in BOOLEAN :
            PacketTable_read(start, len, fault)
    \/ \E start \in 0..MaxPackets, len \in 0..MaxCount, old \in 0..MaxOld,
          fault \in BOOLEAN :
            PacketTable_read_unsized(start, len, old, fault)

Iterates ==
    \/ \E i \in 1..MaxIters : PacketTable_iter(i)
    \/ \E i \in 1..MaxIters, fault1 \in BOOLEAN, fault2 \in BOOLEAN :
            Iterator_next(i, fault1, fault2)

Buffers ==
    \/ \E blen \in 0..MaxBufLen : BufWriter_new(blen)
    \/ \E fault \in BOOLEAN : BufWriter_push(fault)
    \/ \E fault \in BOOLEAN : BufWriter_push_clone(fault)
    \/ \E fault \in BOOLEAN : BufWriter_flush(fault)
    \/ \E how \in {"scope", "unwind"}, fault \in BOOLEAN : BufWriter_drop(how, fault)

\* The table through its handle: appends, positioned reads, the read cursor.
Init == InitObs({"last"})
Next == Appends \/ Seeks \/ Reads
Spec == Init /\ [][Next]_vars

\* Sequential reads, with the windows read_next returned.
InitNext == InitObs({"last", "wins"})
NextNext == Pushes \/ Seeks \/ NextUnsized
SpecNext == InitNext /\ [][NextNext]_vars

\* Iterators beside the operations that move the read cursor.  An iterator
\* borrows the table (&'a self), so on one handle safe Rust admits no &mut
\* call between two of its steps; the model admits them, which only adds
\* behaviours.
InitIter == InitObs({"last", "moved"})
NextIter == Pushes \/ Seeks \/ Iterates
SpecIter == InitIter /\ [][NextIter]_vars

\* The buffered writer on a table that may already hold records.
InitWriter == InitObs({"last", "writer"})
NextWriter == Pushes \/ Buffers
SpecWriter == InitWriter /\ [][NextWriter]_vars

\* Iterators beside appends, with what each iterator returned.
InitYield == InitObs({"last", "yield"})
NextYield == Pushes \/ Iterates
SpecYield == InitYield /\ [][NextYield]_vars

\* Iterators on a table whose count stays fixed: the table holds n records
\* from the start and nothing is appended.  A caller that goes through an
\* iterator (collect, a for loop) calls next() again and again, which is the
\* weak fairness of each iterator's step.
InitFinite ==
    \E n \in 0..MaxPackets : InitWith({"last"}, [k \in 1..n |-> k], NoDecl)
NextFinite ==
    \/ \E i \in 1..MaxIters : cursors[i] = -1 /\ PacketTable_iter(i)
    \/ \E i \in 1..MaxIters, fault1 \in BOOLEAN, fault2 \in BOOLEAN :
            Iterator_next(i, fault1, fault2)
SpecFinite ==
    /\ InitFinite
    /\ [][NextFinite]_vars
    /\ \A i \in 1..MaxIters :
            WF_vars(\E fault1 \in BOOLEAN, fault2 \in BOOLEAN :
                        Iterator_next(i, fault1, fault2))

\* PacketTable values from create or open to their Drop.
Chunks == {<<>>, <<0>>, <<16>>}
Plists == {"none", "unchunked", "chunked"}

Creates ==
    \E h \in 1..MaxHandles, name \in ValidNames \cup NulNames, chunk \in Chunks,
       plist \in Plists, faultt \in BOOLEAN, faultp \in BOOLEAN, faultc \in BOOLEAN :
        Builder_create(h, name, chunk, plist, faultt, faultp, faultc)

Opens ==
    \E h \in 1..MaxHandles, name \in ValidNames \cup NulNames, fault \in BOOLEAN :
        PacketTable_open(h, name, fault)

Lives ==
    \/ \E h \in 1..MaxHandles, fault \in BOOLEAN : PacketTable_validate(h, fault)
    \/ \E h \in 1..MaxHandles, fault \in BOOLEAN : PacketTable_scope_end(h, fault)

InitLife == InitObs({})
NextLife == Creates \/ Opens \/ Lives
SpecLife == InitLife /\ [][NextLife]_vars

\* Type descriptors of the record types of the model.
Describes ==
    \/ Derived_type_descriptor
    \/ Slice_type_descriptor
    \/ Str_type_descriptor

InitLayout ==
    \E d \in Decls, dbg \in BOOLEAN :
        \E r \in Reprs(d) : InitBuild({}, <<>>, d, r, dbg)
NextLayout == Describes
SpecLayout == InitLayout /\ [][NextLayout]_vars

\* Every operation of an open table that returns a Result.
Inspects ==
    \/ \E fault1 \in BOOLEAN, fault2 \in BOOLEAN : PacketTable_dataset(fault1, fault2)
    \/ \E fault1 \in BOOLEAN, fault2 \in BOOLEAN : PacketTable_dtype(fault1, fault2)

InitErrors == InitObs({"last"})
NextErrors == Appends \/ Seeks \/ Reads \/ NextUnsized \/ Inspects
SpecErrors == InitErrors /\ [][NextErrors]_vars

\* Datasets and attributes of dynamically sized records, in a debug or a
\* release build.
Makes ==
    \E kind \in {"dataset", "attr"}, scalar \in BOOLEAN, n \in 0..MaxCount,
       faultc \in BOOLEAN, fault \in Faults :
        Builder_with_data_create(kind, scalar, n, faultc, fault)

ContainerReads ==
    \E old \in 0..MaxOld, fault \in Faults : Container_read_unsized(old, fault)

Containers ==
    \/ Makes
    \/ ContainerReads
    \/ \E old \in 0..MaxOld, fault \in Faults : Container_read(old, fault)
    \/ \E fault \in Faults : Container_read_scalar_unsized(fault)

UnsizedReads ==
    \E start \in 0..MaxPackets, len \in 0..MaxCount, old \in 0..MaxOld,
       fault \in BOOLEAN :
        PacketTable_read_unsized(start, len, old, fault)

InitCont == \E dbg \in BOOLEAN : InitBuild({"last"}, <<>>, NoDecl, "C", dbg)
NextCont == Containers
SpecCont == InitCont /\ [][NextCont]_vars

\* The reads that append to a caller's container, on a table that is empty
\* or full and on a dataset or attribute written earlier.
Written(kind, shape, recs) ==
    [kind |-> kind, shape |-> shape, data |-> recs, orig |-> recs,
     written |-> TRUE, halted |-> FALSE]

Conts ==
    {Written("dataset", <<n>>, [k \in 1..n |-> k]) : n \in 0..MaxCount}
    \cup {Written("attr", <<>>, <<1>>)}

InitFrame ==
    \E n \in {0, MaxPackets}, dbg \in BOOLEAN, c \in Conts :
        InitFull({"last"}, [k \in 1..n |-> k], NoDecl, "C", dbg, c)
NextFrame == NextUnsized \/ UnsizedReads \/ ContainerReads
SpecFrame == InitFrame /\ [][NextFrame]_vars

\* Threads that call into the library at the same time.
Threads ==
    \/ \E t \in 1..MaxThreads, op \in Operations : Thread_call(t, op)
    \/ \E t \in 1..MaxThreads : Thread_enter(t)
    \/ \E t \in 1..MaxThreads : Thread_exit(t)

SpecLock == InitObs({}) /\ [][Threads]_vars

\* Every operation on an open table and its writer, with no history kept.
\* The buffered writer with a caller that pushes a record again after a
\* push of it returned an error.
Retries == \E fault \in BOOLEAN : BufWriter_push_again(fault)
InitRetry == InitObs({"last", "writer"})
NextRetry == Pushes \/ Buffers \/ Retries
SpecRetry == InitRetry /\ [][NextRetry]_vars

InitAll == InitObs({})
NextAll == Appends \/ Seeks \/ NextUnsized \/ Reads \/ Iterates \/ Buffers
SpecAll == InitAll /\ [][NextAll]_vars

\* ------------------------------------------------------------------ claims
IsPrefix(p, s) == Len(p) <= Len(s) /\ SubSeq(s, 1, Len(p)) = p

\* The run C1 is about: a writer with buf_len >= 1, pushes only (no flush()
\* by the caller), and no engine call has failed.
C1_PushesOnly == buf_len >= 1 /\ wlog.explicit = 0 /\ ~wlog.faults

\* C1 as stated: after exactly buf_len pushes there was exactly one
\* append_unsized call, carrying buf_len records, and nothing is buffered;
\* after buf_len - 1 pushes there was none while the writer lives, and
\* exactly one once the writer is gone -- for every buf_len >= 1.
C1_Original ==
    C1_PushesOnly =>
        /\ (wphase = "alive" /\ Len(wlog.pushed) = buf_len) =>
                /\ Len(wlog.appends) = 1
                /\ Len(wlog.appends[1]) = buf_len
                /\ buffer = <<>>
        /\ (wphase = "alive" /\ Len(wlog.pushed) = buf_len - 1) =>
                Len(wlog.appends) = 0
        /\ (wphase = "gone" /\ Len(wlog.pushed) = buf_len - 1) =>
                Len(wlog.appends) = 1

\* C1 (amended): exactly buf_len pushes cause one flush() with one
\* append_unsized call carrying the buf_len records and leave nothing
\* buffered; buf_len - 1 pushes cause no flush() while the writer lives, and
\* dropping the writer invokes flush() exactly once, which makes one
\* append_unsized call carrying the buf_len - 1 records when buf_len >= 2
\* and no engine call when buf_len = 1 (the buffer is empty).
C1_FlushThreshold ==
    C1_PushesOnly =>
        /\ (wphase = "alive" /\ Len(wlog.pushed) = buf_len) =>
                /\ wlog.flushes = 1
                /\ wlog.appends = <<wlog.pushed>>
                /\ buffer = <<>>
        /\ (wphase = "alive" /\ Len(wlog.pushed) = buf_len - 1) =>
                /\ wlog.flushes = 0
                /\ wlog.appends = <<>>
                /\ buffer = wlog.pushed
        /\ (wphase = "gone" /\ Len(wlog.pushed) = buf_len - 1) =>
                /\ wlog.flushes = 1
                /\ wlog.appends = IF buf_len >= 2 THEN <<wlog.pushed>> ELSE <<>>

C1_Witness ==
    /\ C1_PushesOnly
    /\ wphase = "gone"
    /\ buf_len = 2
    /\ Len(wlog.pushed) = 1
    /\ wlog.appends = <<wlog.pushed>>

\* C2: once the writer is gone every record it accepted is in the table,
\* behind the records the table held when the writer was created; the only
\* other way out of scope is the halt of the failed drop-time flush.
C2_NoSilentDrop ==
    /\ wphase = "gone" => IsPrefix(wlog.table0 \o wlog.pushed, table)
    /\ (last.op = "buf_drop" /\ last.ok) =>
            wphase = "gone" /\ table = wlog.table0 \o wlog.pushed
    /\ (last.op = "buf_drop" /\ ~last.ok) => wphase = "halted"
    /\ wphase = "halted" => (last.op = "buf_drop" /\ ~last.ok)
    /\ wlog.exit # "none" => wlog.flushes >= 1

C2_Witness ==
    /\ wphase = "gone"
    /\ wlog.exit = "unwind"
    /\ wlog.faults
    /\ Len(wlog.pushed) >= 2
    /\ last.op = "buf_drop"
    /\ last.n = 1

\* C3: flush() on a non-empty buffer makes one append_unsized call with the
\* whole buffer and, the call having succeeded, leaves the buffer empty with
\* its capacity as it was; on an empty buffer it makes no engine call, leaves
\* table and buffer as they were and returns Ok.
C3_Flush ==
    [][last'.op = "buf_flush" =>
        IF buffer # <<>>
        THEN /\ wlog'.appends = Append(wlog.appends, buffer)
             /\ last'.ok => (buffer' = <<>> /\ cap' = cap /\ table' = table \o buffer)
             /\ ~last'.ok => (buffer' = buffer /\ cap' = cap /\ table' = table)
        ELSE /\ wlog'.appends = wlog.appends
             /\ table' = table
             /\ buffer' = buffer
             /\ cap' = cap
             /\ last'.ok]_vars

C3_Witness ==
    /\ last.op = "buf_flush"
    /\ last.ok
    /\ Len(last.buf0) = 1
    /\ buffer = <<>>
    /\ cap = buf_len
    /\ buf_len = 2

\* C4: push, append and append_unsized put their 1, N, len records at the end
\* of the table when they return Ok and leave the table as it was when they
\* return an error; no step shows part of a batch.
C4_AppendWhole ==
    [][last'.op \in {"push", "append", "append_unsized"} =>
        /\ last'.op = "push" => last'.n = 1
        /\ last'.n = Len(last'.ret)
        /\ IF last'.ok
           THEN table' = table \o last'.ret /\ Len(table') = Len(table) + last'.n
           ELSE table' = table]_vars

C4_Witness ==
    /\ last.op = "append"
    /\ last.ok
    /\ last.n = 2
    /\ Len(table) = 3

C6_ReadKeepsIndex ==
    [][last'.op \in {"read", "read_unsized"} => index' = index]_vars

C6_Witness ==
    /\ last.op = "read"
    /\ last.ok
    /\ last.n = 2
    /\ index = 1

\* C7: k successful read_next(c) calls from index 0 leave index = k * c, the
\* i-th returned records [(i-1)*c, i*c), and together they are read(0, k*c).
C7_Partition ==
    (wins.valid /\ wins.log # <<>>) =>
        \A c \in 0..MaxCount :
            (\A i \in 1..Len(wins.log) : Len(wins.log[i]) = c) =>
                LET k == Len(wins.log) IN
                /\ k * c <= Len(table)
                /\ index = k * c
                /\ \A i \in 1..k :
                        wins.log[i] = SubSeq(table, (i - 1) * c + 1, i * c)
                /\ LET r == read(table, index, 0, k * c, FALSE) IN
                        r.ok /\ Concat(wins.log) = r.vec

C7_Witness ==
    /\ wins.valid
    /\ Len(wins.log) = 2
    /\ \A i \in 1..2 : Len(wins.log[i]) = 2
    /\ last.op = "read_next"
    /\ index = 4

\* C8: a read_next or read_next_unsized that returns an error leaves the
\* cursor where it was and hands back nothing: no Vec, and the caller's
\* container as long as before; one that succeeds advances the cursor by len.
C8_NextOnlyOnSuccess ==
    [][last'.op \in {"read_next", "read_next_unsized"} =>
        IF last'.ok
        THEN index' = index + last'.n
        ELSE index' = index /\ last'.ret = last'.buf0]_vars

C8_Witness ==
    /\ last.op = "read_next_unsized"
    /\ ~last.ok
    /\ ~last.fault
    /\ Len(last.buf0) = 1
    /\ index = 1
    /\ index + last.n > Len(table)

\* C9 as stated: read(start, count) returns an error whenever start + count
\* exceeds the number of records.
C9_Original ==
    (last.op = "read" /\ last.start + last.n > Len(table)) => ~last.ok

\* C9 (amended): read(start, count) with count >= 1 returns an error whenever
\* start + count exceeds the number of records (a request of zero records
\* succeeds with an empty Vec wherever it starts); an error comes with no Vec;
\* within the table and with the engine answering, it returns exactly the
\* count records at [start, start + count).
C9_ReadBounds ==
    last.op = "read" =>
        /\ (last.n >= 1 /\ last.start + last.n > Len(table)) => ~last.ok
        /\ ~last.ok => last.ret = <<>>
        /\ last.ok =>
                /\ Len(last.ret) = last.n
                /\ last.ret = SubSeq(table, last.start + 1, last.start + last.n)
        /\ (last.start + last.n <= Len(table) /\ ~last.fault) => last.ok
        /\ (last.n = 0 /\ ~last.fault) => last.ok

C9_Witness ==
    /\ last.op = "read"
    /\ last.n = 2
    /\ last.start = 2
    /\ Len(table) = 3
    /\ ~last.fault
    /\ ~last.ok

\* C10: iter() starts a private cursor at 0; a step of an iterator leaves the
\* table's index and the other iterators alone; set_index, reset_index and
\* read_next leave every iterator's cursor alone, so the record an iterator
\* yields is the one at its own cursor whatever the index is.
C10_IterIndependent ==
    [][/\ last'.op \in {"iter", "item", "err", "end"} =>
            /\ index' = index
            /\ \A j \in 1..MaxIters \ {last'.start} : cursors'[j] = cursors[j]
       /\ last'.op = "iter" => cursors'[last'.start] = 0
       /\ last'.op \in {"set_index", "reset_index", "read_next"} =>
            cursors' = cursors
       /\ last'.op = "item" =>
            /\ last'.ret = <<table[cursors[last'.start] + 1]>>
            /\ cursors'[last'.start] = cursors[last'.start] + 1]_vars

C10_Witness ==
    /\ last.op = "item"
    /\ last.note
    /\ last.start = 1
    /\ cursors[1] = 2
    /\ index = 0
    /\ cursors[2] = 1

\* C11: what an iterator returned so far is the records at positions 0, 1,
\* ... up to its cursor, in that order and once each, whatever was appended
\* meanwhile; each step reads the count anew: it yields the record at its
\* cursor when the cursor is below the count of that step (a record appended
\* since the step before included) and returns end-of-sequence exactly when
\* the cursor equals that count; a step whose engine call fails returns the
\* error and leaves the cursor where it was.
C11_IterYields ==
    /\ [](\A i \in 1..MaxIters : cursors[i] >= 0 =>
            /\ cursors[i] <= Len(table)
            /\ yielded[i].items = SubSeq(table, 1, cursors[i]))
    /\ [][last'.op \in {"item", "err", "end"} =>
            LET i == last'.start IN
            /\ last'.op = "end" <=> (last'.ok /\ cursors[i] = Len(table))
            /\ last'.op = "item" <=> (last'.ok /\ cursors[i] < Len(table))
            /\ last'.op = "item" =>
                    /\ last'.ret = <<table[cursors[i] + 1]>>
                    /\ cursors'[i] = cursors[i] + 1
            /\ last'.op # "item" =>
                    /\ cursors'[i] = cursors[i]
                    /\ yielded'[i].items = yielded[i].items
            /\ table' = table]_vars

C11_Witness ==
    /\ last.op = "end"
    /\ last.start = 1
    /\ Len(table) = 3
    /\ yielded[1].items = table
    /\ yielded[1].late

\* C12: on a table whose count stays fixed, an iterator whose next() is
\* called again and again returns end-of-sequence, whatever the engine does.
C12_IterFinite ==
    \A i \in 1..MaxIters :
        (cursors[i] >= 0) ~> (last.op = "end" /\ last.start = i)

\* C13: create on a builder with neither chunk nor property list returns the
\* configuration error, having made no engine call and no engine object, and
\* leaves the location and the handles as they were.
C13_NoResource ==
    [][(life'.op = "create" /\ life'.chunk = <<>> /\ life'.plist = "none") =>
        /\ life'.result = "config"
        /\ life'.ecalls = <<>>
        /\ life'.made = 0
        /\ file' = file
        /\ handles' = handles]_vars

\* C14: create and open with a name that holds a NUL byte return the name
\* error, having made no engine call.
C14_NameFirst ==
    (life.op \in {"create", "open"} /\ life.name \in NulNames) =>
        /\ life.result = "name"
        /\ life.ecalls = <<>>

\* C15: create on a builder with a chunk size set passes the chunking check
\* whatever property list is set, and an H5PTcreate call it makes gets the
\* builder's chunk size.
C15_ChunkSuffices ==
    (life.op = "create" /\ life.chunk # <<>>) =>
        /\ life.result # "config"
        /\ life.chunk_size # <<>> => life.chunk_size = life.chunk

\* C16: a handle from create or open has had no H5PTclose while it is open
\* and exactly one once it left its scope, also after operations on it
\* failed; nothing is done with a handle after its release; a release the
\* engine refuses halts the program, and a halted program runs nothing.
C16_CloseOnce ==
    /\ [](\A h \in 1..MaxHandles :
            /\ handles[h].state \in {"none", "open"} => handles[h].closes = 0
            /\ handles[h].state \in {"closed", "halted"} => handles[h].closes = 1)
    /\ [](life.op = "drop" =>
            /\ life.ecalls = <<"H5PTclose">>
            /\ life.result \in {"ok", "halt"}
            /\ life.result = "halt" <=> handles[life.h].state = "halted"
            /\ life.result = "ok" <=> handles[life.h].state = "closed")
    /\ [](life.op \in {"create", "open"} =>
            (life.result = "ok" <=> handles[life.h].state # "none"))
    /\ [][/\ \A h \in 1..MaxHandles :
                handles[h].state \in {"closed", "halted"} =>
                    handles'[h] = handles[h] /\ (life' # life => life'.h # h)
          /\ ~Running => (handles' = handles /\ life' = life)]_vars

C16_Witness ==
    /\ handles[1].state = "closed"
    /\ handles[1].failed
    /\ handles[1].closes = 1
    /\ handles[2].state = "halted"
    /\ handles[2].closes = 1
    /\ life.op = "drop"

\* The layouts of the fields of the record type, in declaration order.
FieldLayouts(d) == d.head \o TailLayout(d.tail)

\* The largest alignment among fs, 1 for no field.
RECURSIVE MaxAlign(_)
MaxAlign(fs) == IF fs = <<>> THEN 1 ELSE Max(Head(fs).align, MaxAlign(Tail(fs)))

\* C17: the offsets of a compound descriptor do not decrease in declaration
\* order, each is a multiple of its field's alignment, and the size is a
\* multiple of the largest field alignment.
C17_LayoutInvariant ==
    td.kind = "compound" =>
        LET fs == FieldLayouts(decl) IN
        /\ Len(td.fields) = Len(fs)
        /\ \A k \in 1..Len(fs) :
                /\ td.fields[k].offset % fs[k].align = 0
                /\ k > 1 => td.fields[k - 1].offset <= td.fields[k].offset
        /\ td.align = MaxAlign(fs)
        /\ td.size % MaxAlign(fs) = 0

C17_Witness ==
    /\ td.kind = "compound"
    /\ decl.kind = "derive"
    /\ decl.head = <<L(1, 1), L(8, 8)>>
    /\ decl.tail = <<[elem |-> L(4, 4), n |-> 1]>>
    /\ td.size = 24

\* The smallest multiple of align that is at least size.
SmallestMultiple(size, align) ==
    CHOOSE m \in size..(size + align) :
        /\ m % align = 0
        /\ \A m2 \in size..(m - 1) : m2 % align # 0

\* The record of the layout test: fields i32, i64 and a tail of 3 f32.
Foo3 == [kind |-> "derive", head |-> <<L(4, 4), L(8, 8)>>,
         tail |-> <<[elem |-> L(4, 4), n |-> 3]>>]

\* C18: each field's offset is the smallest multiple of its alignment that
\* is at least the size accumulated from the fields before it (0 before
\* the first), the alignment of the compound is the largest one seen, and
\* the fields (i32, i64, [f32; 3]) get the offsets 0, 8, 16.
C18_SmallestOffset ==
    td.kind = "compound" =>
        LET fs == FieldLayouts(decl) IN
        /\ \A k \in 1..Len(fs) :
                LET acc == IF k = 1 THEN 0
                           ELSE td.fields[k - 1].offset + fs[k - 1].size IN
                td.fields[k].offset = SmallestMultiple(acc, fs[k].align)
        /\ td.align = MaxAlign(fs)
        /\ decl = Foo3 =>
                [k \in 1..3 |-> td.fields[k].offset] = <<0, 8, 16>>

C18_Witness ==
    /\ td.kind = "compound"
    /\ decl = Foo3
    /\ td.fields[2].offset = 8
    /\ td.fields[3].offset = 16

\* C19 as stated: no two fields of a compound descriptor have the same
\* offset, and their byte ranges do not overlap.
C19_UniqueOffsets ==
    td.kind = "compound" =>
        \A j \in 1..Len(td.fields), k \in 1..Len(td.fields) :
            j < k =>
                /\ td.fields[j].offset # td.fields[k].offset
                /\ \A x \in td.fields[j].offset..(td.fields[j].offset + td.fields[j].size - 1) :
                        x \notin td.fields[k].offset..(td.fields[k].offset + td.fields[k].size - 1)

\* C19 (amended): the byte ranges of the fields do not overlap and lie in
\* declaration order within the size; a field of non-zero size has an offset
\* below that of every later field, while a zero-sized field may share its
\* offset with the field after it.
C19_NoOverlap ==
    td.kind = "compound" =>
        /\ \A j \in 1..Len(td.fields), k \in 1..Len(td.fields) :
                j < k =>
                    /\ td.fields[j].offset + td.fields[j].size <= td.fields[k].offset
                    /\ td.fields[j].size > 0 =>
                            td.fields[j].offset < td.fields[k].offset
        /\ \A k \in 1..Len(td.fields) :
                /\ td.fields[k].size = FieldLayouts(decl)[k].size
                /\ td.fields[k].index = k - 1
                /\ td.fields[k].offset + td.fields[k].size <= td.size

C19_Witness ==
    /\ td.kind = "compound"
    /\ decl.kind = "slice"
    /\ decl.head = <<L(0, 4)>>
    /\ decl.tail = <<[elem |-> L(4, 4), n |-> 2]>>
    /\ td.fields[1].offset = td.fields[2].offset
    /\ td.size = 8

\* The size accumulated from the fields fs, from size 0.
RECURSIVE Extent(_, _)
Extent(fs, size) ==
    IF fs = <<>> THEN size
    ELSE Extent(Tail(fs), SmallestMultiple(size, Head(fs).align) + Head(fs).size)

\* C20: the size of the descriptor of a record with a tail of n elements is
\* the size of the header, rounded up to the alignment of the tail's element,
\* plus n times the size of the element, rounded up to the alignment of the
\* record; the tail field's extent is n times the size of the element; a
\* header (i32, i64) with a tail of 3 f32 gives 32.
C20_TailSize ==
    (td.kind = "compound" /\ decl.tail # <<>>) =>
        LET elem == decl.tail[1].elem
            n == decl.tail[1].n
            header == Extent(decl.head, 0)
            align == MaxAlign(Append(decl.head, elem)) IN
        /\ td.fields[Len(td.fields)].size = n * elem.size
        /\ td.size = SmallestMultiple(SmallestMultiple(header, elem.align)
                                        + n * elem.size, align)
        /\ decl = Foo3 => td.size = 32

C20_Witness ==
    /\ td.kind = "compound"
    /\ decl.kind = "slice"
    /\ decl.head = <<L(12, 4)>>
    /\ decl.tail = <<[elem |-> L(8, 8), n |-> 3]>>
    /\ td.size = 40
\* C21: whenever the layout a type_descriptor() computed differs from the
\* record's true footprint, the call halts the program and returns no
\* descriptor, whatever the build.  (As claimed; it fails in a build
\* without debug assertions.)
Mismatch ==
    /\ td.kind # "none"
    /\ L(td.size, td.align) # Layout_for_value(FieldLayouts(decl), repr)

C21_Unconditional == Mismatch => td.kind = "panic"

\* C21, amended: on such a mismatch the call halts exactly in the builds
\* that have debug assertions; the other builds return the descriptor of
\* the computed layout.  Without a mismatch a descriptor is returned.
C21_DebugOnly ==
    /\ Mismatch => (td.kind = "panic" <=> debug_assertions)
    /\ (td.kind # "none" /\ ~Mismatch) => td.kind = "compound"

\* A debug build halted on a packed record.
C21_Witness ==
    /\ Mismatch
    /\ debug_assertions
    /\ td.kind = "panic"
    /\ decl.head = <<L(1, 1), L(4, 4)>>

C23_DataRoundTrip ==
    /\ (last.op = "with_data_unsized(&vec)" /\ last.ok) =>
            (cont.shape = <<Len(last.ret)>> /\ cont.data = last.ret)
    /\ (last.op = "ContainerExt::read_unsized" /\ cont.written /\ cont.shape # <<>>
            /\ last.buf0 = <<>>) =>
            /\ last.ok => last.ret = cont.orig
            /\ ~last.fault => last.ok
    /\ (last.op = "ContainerExt::read_scalar_unsized" /\ cont.written) =>
            /\ last.ok => last.ret = cont.orig
            /\ ~last.fault => last.ok

\* A dataset made from two records was read back into an empty container.
C23_Witness ==
    /\ last.op = "ContainerExt::read_unsized" /\ last.ok /\ last.buf0 = <<>>
    /\ cont.kind = "dataset" /\ cont.written
    /\ cont.shape = <<MaxCount>>
    /\ last.ret = [k \in 1..MaxCount |-> k]

\* C28: read_unsized and read_next_unsized of a packet table and
\* ContainerExt::read_unsized of a dataset or attribute append to the
\* caller's container: after a success it holds the L records it held,
\* unchanged, then the c records read; after a failure it holds the L
\* records it held.
C28_ReadsAppend ==
    last.op \in {"read_unsized", "read_next_unsized", "ContainerExt::read_unsized"} =>
        LET L0 == Len(last.buf0)
            c == last.n
            records == IF last.op = "read_unsized"
                       THEN SubSeq(table, last.start + 1, last.start + c)
                       ELSE IF last.op = "read_next_unsized"
                       THEN SubSeq(table, index - c + 1, index)
                       ELSE cont.data
        IN  IF last.ok
            THEN /\ Len(last.ret) = L0 + c
                 /\ SubSeq(last.ret, 1, L0) = last.buf0
                 /\ SubSeq(last.ret, L0 + 1, L0 + c) = records
            ELSE last.ret = last.buf0

\* A dataset of two records was read into a container that held one.
C28_Witness ==
    /\ last.op = "ContainerExt::read_unsized" /\ last.ok
    /\ Len(last.buf0) = MaxOld /\ last.n = MaxCount
    /\ Len(last.ret) = MaxOld + MaxCount

\* C29: ContainerExt::read of container_ext.rs, called on a container that
\* holds L > 0 records, keeps them and places the c records read at
\* [L, L + c).  (As claimed; the code writes them at [0, c).)
C29_ReadPreserves ==
    (last.op = "ContainerExt::read" /\ last.ok /\ Len(last.buf0) > 0) =>
        last.ret = last.buf0 \o cont.data

\* C27: after a successful reset_index the cursor is 0: index() returns 0
\* and the next read_next(c) returns the records [0, c); after a
\* successful set_index(i) the cursor is i and index() returns i.
C27_Seek ==
    [][/\ (last.op = "reset_index" /\ last.ok) =>
            /\ index = 0
            /\ (last'.op = "index" /\ last'.ok) => last'.ret = <<0>>
            /\ (last'.op = "read_next" /\ last'.ok) =>
                    (last'.ret = SubSeq(table, 1, last'.n) /\ index' = last'.n)
       /\ (last.op = "set_index" /\ last.ok) =>
            /\ index = last.start
            /\ (last'.op = "index" /\ last'.ok) => last'.ret = <<last.start>>]_vars

\* A set_index to the last record of a full table succeeded.
C27_Witness ==
    /\ last.op = "set_index" /\ last.ok
    /\ last.start = MaxPackets - 1
    /\ index = MaxPackets - 1

\* C30: while a buffered writer lives, the records of the table followed by
\* the records in its buffer are the records the table held when the
\* writer was made followed by every record pushed, in push order;
\* whatever pushes, explicit flushes and failed appends came before.
C30_NothingLost ==
    wphase = "alive" => table \o buffer = wlog.table0 \o wlog.pushed

\* A failed append left the records in the buffer and a later flush wrote
\* some of the records pushed, on a table that held a record before.
C30_Witness ==
    /\ wphase = "alive"
    /\ wlog.faults
    /\ wlog.explicit > 0
    /\ wlog.table0 # <<>>
    /\ buffer # <<>>
    /\ Len(table) > Len(wlog.table0)

\* C24: no operation of a packet table returns success when an engine call
\* it made failed.  (As claimed; dataset() and dtype() drop the value of
\* H5Iinc_ref.)
C24_NoSwallow == last.fault => ~last.ok

InEngine == {t \in 1..MaxThreads : threads[t].inside}

C25_Serialized ==
    /\ Cardinality(InEngine) <= 1
    /\ \A t \in InEngine : lock.owner = t
    /\ lock.depth <= 1

\* How many times v occurs in s.
RECURSIVE Occurrences(_, _)
Occurrences(v, s) ==
    IF s = <<>> THEN 0
    ELSE (IF Head(s) = v THEN 1 ELSE 0) + Occurrences(v, Tail(s))

PushOps == {"buf_push", "buf_push_clone"}

\* C31: a push that returns an error leaves the record it pushed behind
\* the records buffered before it and the table as it was; a later call of
\* the writer whose flush succeeds writes the whole buffer once and empties
\* it; so a record pushed again after the error is once more among the
\* records held, and a writer dropped without a failure has put every
\* record into the table as many times as it was pushed.
C31_ErrorKeeps ==
    [][/\ (last'.op \in PushOps /\ ~last'.ok) =>
            /\ buffer' = buffer \o last'.ret
            /\ table' = table
            /\ wphase' = "alive"
       /\ (last'.op \in PushOps \cup {"buf_flush", "buf_drop"} /\ last'.ok
                /\ wlog'.appends # wlog.appends) =>
            /\ table' = table \o buffer \o (IF last'.op \in PushOps THEN last'.ret ELSE <<>>)
            /\ buffer' = <<>>
       /\ (last.op \in PushOps /\ ~last.ok /\ last'.op \in PushOps
                /\ last'.ret = last.ret) =>
            /\ Occurrences(last.ret[1], table' \o buffer')
                    = Occurrences(last.ret[1], table \o buffer) + 1
            /\ Occurrences(last.ret[1], table' \o buffer') >= 2
       /\ (last'.op = "buf_drop" /\ last'.ok) =>
            \A v \in 1..MaxPackets :
                Occurrences(v, table') = Occurrences(v, wlog'.table0 \o wlog'.pushed)]_vars

\* A record whose push failed was pushed again and is twice in the table.
C31_Witness ==
    /\ wlog.faults
    /\ \E v \in 1..MaxPackets :
            /\ Occurrences(v, wlog.pushed) = 2
            /\ Occurrences(v, table) = 2
    /\ buffer = <<>>
    /\ last.op \in PushOps \cup {"buf_flush", "buf_drop"}
    /\ last.ok


\* The state C32 is about: a push, push_clone or flush of a writer made
\* with buf_len >= 1 has just returned.
C32_Returned ==
    /\ wphase = "alive"
    /\ buf_len >= 1
    /\ last.op \in PushOps \cup {"buf_flush"}

\* C32 as stated: after every push or flush returns, with success or with
\* error, at most buf_len records are buffered, whatever appends failed;
\* strictly fewer when no flush has failed.
C32_Bounded ==
    C32_Returned =>
        /\ Len(buffer) <= buf_len
        /\ ~wlog.faults => Len(buffer) < buf_len

\* C32 (amended): after a push or flush returns, at most buf_len records
\* are buffered if fewer than buf_len were buffered before the call, and
\* strictly fewer than buf_len whenever the call returned success or no
\* flush has failed; a call that returns an error leaves every record
\* buffered before it, and the record pushed, in the buffer, so failed
\* flushes in a row let the count pass buf_len.
C32_Threshold ==
    C32_Returned =>
        /\ Len(last.buf0) < buf_len => Len(buffer) <= buf_len
        /\ last.ok => Len(buffer) < buf_len
        /\ ~wlog.faults => Len(buffer) < buf_len
        /\ ~last.ok =>
                Len(buffer) = Len(last.buf0) + (IF last.op \in PushOps THEN 1 ELSE 0)

\* Two pushes in a row failed their flush: buf_len + 1 records are buffered.
C32_Witness ==
    /\ C32_Returned
    /\ last.op \in PushOps
    /\ ~last.ok
    /\ Len(last.buf0) = buf_len
    /\ Len(buffer) = buf_len + 1

====
